---- MODULE Spec2Model ----
(***************************************************************************)
(* Model of the evaluation kernel of savage_core (src/evaluate.rs):        *)
(* Expression::evaluate, evaluate_step, evaluate_step_unary and            *)
(* evaluate_step_binary, over exact complex rationals.                     *)
(***************************************************************************)
EXTENDS Integers, Sequences, FiniteSets, TLC

\* Largest magnitude of the integer literals of the caller's expressions.
MaxInt == 2

\* Most iterations of the loop of evaluate that a call is followed through.
MaxIterations == 8

\* i32::MAX, the range of the ToPrimitive::to_i32 conversion of the exponent.
I32Max == 2147483647

----------------------------------------------------------------------------
(* Exact rationals (num::BigRational): [n, d] with d > 0 and gcd(n, d) = 1 *)

Abs(n) == IF n < 0 THEN -n ELSE n

RECURSIVE GCD(_, _)
GCD(a, b) == IF b = 0 THEN a ELSE GCD(b, a % b)

\* Ratio::new: reduce to lowest terms with a positive denominator (d # 0).
RNorm(n, d) ==
    LET g == GCD(Abs(n), Abs(d))
        s == IF d < 0 THEN -1 ELSE 1
    IN  [n |-> (s * n) \div g, d |-> (s * d) \div g]

RInt(n) == [n |-> n, d |-> 1]
RZero == RInt(0)
ROne == RInt(1)
RIsZero(x) == x.n = 0
RNeg(x) == [n |-> -x.n, d |-> x.d]
RAdd(x, y) == RNorm(x.n * y.d + y.n * x.d, x.d * y.d)
RSub(x, y) == RNorm(x.n * y.d - y.n * x.d, x.d * y.d)
RMul(x, y) == RNorm(x.n * y.n, x.d * y.d)
\* Ratio division; the caller guarantees y # 0.
RDiv(x, y) == RNorm(x.n * y.d, x.d * y.n)
RLess(x, y) == x.n * y.d < y.n * x.d
\* Ratio::to_integer / trunc: rounds toward zero.
RTrunc(x) == IF x.n >= 0 THEN x.n \div x.d ELSE -((-x.n) \div x.d)
\* Ratio % Ratio: remainder of the division truncated toward zero.
RRem(x, y) == RSub(x, RMul(RInt(RTrunc(RDiv(x, y))), y))

(* Exact complex numbers (num::Complex<BigRational>): [re, im]             *)

Cx(re, im) == [re |-> re, im |-> im]
CInt(n) == Cx(RInt(n), RZero)
COne == CInt(1)
\* Complex::i()
CI == Cx(RZero, ROne)
CIsZero(z) == RIsZero(z.re) /\ RIsZero(z.im)
CNeg(z) == Cx(RNeg(z.re), RNeg(z.im))
CAdd(a, b) == Cx(RAdd(a.re, b.re), RAdd(a.im, b.im))
CSub(a, b) == Cx(RSub(a.re, b.re), RSub(a.im, b.im))
CMul(a, b) ==
    Cx(RSub(RMul(a.re, b.re), RMul(a.im, b.im)),
       RAdd(RMul(a.re, b.im), RMul(a.im, b.re)))
CNormSqr(z) == RAdd(RMul(z.re, z.re), RMul(z.im, z.im))
\* Complex / Complex; the caller guarantees b # 0.
CDiv(a, b) ==
    LET ns == CNormSqr(b)
    IN  Cx(RDiv(RAdd(RMul(a.re, b.re), RMul(a.im, b.im)), ns),
           RDiv(RSub(RMul(a.im, b.re), RMul(a.re, b.im)), ns))
\* Complex % Complex: a - b * (a / b with both parts truncated toward zero).
CRem(a, b) ==
    LET q == CDiv(a, b)
        q0 == Cx(RSub(q.re, RRem(q.re, ROne)), RSub(q.im, RRem(q.im, ROne)))
    IN  CSub(a, CMul(b, q0))
\* Complex::inv; the caller guarantees z # 0.
CInv(z) ==
    LET ns == CNormSqr(z)
    IN  Cx(RDiv(z.re, ns), RDiv(RNeg(z.im), ns))

RECURSIVE CPowU(_, _)
\* Pow<u32>: z multiplied by itself n >= 0 times (one for n = 0).
CPowU(z, n) == IF n = 0 THEN COne ELSE CMul(z, CPowU(z, n - 1))

----------------------------------------------------------------------------
(* Expression (crate::expression::Expression), one record shape per variant *)

Variable(id) == [k |-> "Variable", id |-> id]
Function(id, args) == [k |-> "Function", id |-> id, args |-> args]
Integer(n) == [k |-> "Integer", v |-> n]
Rational(x, rep) == [k |-> "Rational", x |-> x, rep |-> rep]
Complex(z, rep) == [k |-> "Complex", z |-> z, rep |-> rep]
Vector(elems) == [k |-> "Vector", elems |-> elems]
Matrix(elems) == [k |-> "Matrix", elems |-> elems]
Boolean(b) == [k |-> "Boolean", b |-> b]
Unary(op, a) == [k |-> op, a |-> a]
Binary(op, a, b) == [k |-> op, a |-> a, b |-> b]

UnaryOps == {"Negation", "Not"}
ArithmeticOps == {"Sum", "Difference", "Product", "Quotient", "Remainder", "Power"}
EqualityOps == {"Equal", "NotEqual"}
OrderingOps == {"LessThan", "LessThanOrEqual", "GreaterThan", "GreaterThanOrEqual"}
LogicalOps == {"And", "Or"}
BinaryOps == ArithmeticOps \cup EqualityOps \cup OrderingOps \cup LogicalOps

(* Result<Expression, Error>, plus the two ways a call can end without one *)

Ok(e) == [t |-> "Ok", e |-> e]
Err(x) == [t |-> "Err", err |-> x]
\* unbounded recursion of evaluate_step: the thread's stack is exhausted
StackOverflow == [t |-> "StackOverflow"]
\* a panic inside an arithmetic primitive (division by zero)
Panic == [t |-> "Panic"]

InvalidOperand(expression, operand) ==
    [kind |-> "InvalidOperand", expression |-> expression, operand |-> operand]
IncompatibleOperands(expression, operand_1, operand_2) ==
    [kind |-> "IncompatibleOperands", expression |-> expression,
     operand_1 |-> operand_1, operand_2 |-> operand_2]
DivisionByZero(expression, dividend, divisor) ==
    [kind |-> "DivisionByZero", expression |-> expression,
     dividend |-> dividend, divisor |-> divisor]
ZeroToThePowerOfZero(expression, base, exponent) ==
    [kind |-> "ZeroToThePowerOfZero", expression |-> expression,
     base |-> base, exponent |-> exponent]

ErrorKinds ==
    {"InvalidOperand", "IncompatibleOperands", "DivisionByZero", "ZeroToThePowerOfZero"}

(* Type (crate::expression::Type) and Expression::typ                      *)

Num(z, rep) == [t |-> "Num", z |-> z, rep |-> rep]
Bool(known, b) == [t |-> "Bool", known |-> known, b |-> b]
Mat(m) == [t |-> "Mat", m |-> m]
Arithmetic == [t |-> "Arithmetic"]

\* The classifier: literals by their value, boolean-valued operator nodes as
\* Boolean(unknown), everything else as Arithmetic.
typ(e) ==
    CASE e.k = "Integer" -> Num(CInt(e.v), "Fraction")
      [] e.k = "Rational" -> Num(Cx(e.x, RZero), e.rep)
      [] e.k = "Complex" -> Num(e.z, e.rep)
      [] e.k = "Matrix" -> Mat(e.elems)
      [] e.k = "Boolean" -> Bool(TRUE, e.b)
      [] e.k \in {"Not"} \cup EqualityOps \cup OrderingOps \cup LogicalOps ->
            Bool(FALSE, FALSE)
      [] OTHER -> Arithmetic

\* RationalRepresentation::merge: differing hints give Decimal.
merge(r1, r2) == IF r1 = r2 THEN r1 ELSE "Decimal"

\* Neg for a matrix of expressions: every element negated.
MatNeg(m) == [j \in DOMAIN m |-> Unary("Negation", m[j])]

----------------------------------------------------------------------------
(* evaluate_step_unary, after the operand has been stepped                 *)

\* self: the unary node, a_original: its operand, a: the stepped operand
unary_apply(self, a_original, a) ==
    LET ta == typ(a)
    IN  IF \/ self.k = "Negation" /\ ta.t = "Bool"
           \/ self.k = "Not" /\ ta.t \in {"Num", "Mat", "Arithmetic"}
        THEN Err(InvalidOperand(self, a_original))
        ELSE IF self.k = "Negation"
        THEN CASE ta.t = "Num" -> Ok(Complex(CNeg(ta.z), ta.rep))
               [] ta.t = "Mat" -> Ok(Matrix(MatNeg(ta.m)))
               [] OTHER -> Ok(Unary("Negation", a))
        ELSE IF ta.t = "Bool" /\ ta.known
        THEN Ok(Boolean(~ta.b))
        ELSE Ok(Unary("Not", a))

(* evaluate_step_binary, after both operands have been stepped             *)

\* mutant: the logical operators let an Arithmetic operand through
InvalidFor_LenientLogical(op, t) ==
    \/ op \in ArithmeticOps /\ t.t = "Bool"
    \/ op \in OrderingOps /\ t.t \in {"Mat", "Bool"}
    \/ op \in LogicalOps /\ t.t \in {"Num", "Mat"}

\* mutant: the arithmetic operators reject an Arithmetic operand too
InvalidFor_StrictArithmetic(op, t) ==
    \/ op \in ArithmeticOps /\ t.t \in {"Bool", "Arithmetic"}
    \/ op \in OrderingOps /\ t.t \in {"Mat", "Bool"}
    \/ op \in LogicalOps /\ t.t \in {"Num", "Mat", "Arithmetic"}

\* the first two match arms: the operand type is one the operator rejects
InvalidFor(op, t) ==
    \/ op \in ArithmeticOps /\ t.t = "Bool"
    \/ op \in OrderingOps /\ t.t \in {"Mat", "Bool"}
    \/ op \in LogicalOps /\ t.t \in {"Num", "Mat", "Arithmetic"}

\* the third match arm: two operand types the operator cannot combine
Incompatible(op, ta, tb) ==
    \/ op \in {"Sum", "Difference"} \cup EqualityOps /\ ta.t = "Num" /\ tb.t = "Mat"
    \/ op \in {"Sum", "Difference"} \cup EqualityOps /\ ta.t = "Mat" /\ tb.t = "Num"
    \/ op \in EqualityOps /\ ta.t \in {"Num", "Mat"} /\ tb.t = "Bool"
    \/ op \in EqualityOps /\ ta.t = "Bool" /\ tb.t \in {"Num", "Mat"}

\* Complex::to_i32 (num's ToPrimitive): None unless the imaginary part is
\* zero; the real part goes through Ratio::to_integer, which truncates toward
\* zero, and the integer must lie in the i32 range.
to_i32(z) ==
    IF ~RIsZero(z.im)
    THEN [some |-> FALSE, v |-> 0]
    ELSE LET n == RTrunc(z.re)
         IN  IF -I32Max - 1 <= n /\ n <= I32Max
             THEN [some |-> TRUE, v |-> n]
             ELSE [some |-> FALSE, v |-> 0]

\* Complex::powi: a negative exponent raises the reciprocal of the base, and
\* the reciprocal of zero divides by zero.
powi(a, n, representation) ==
    IF n >= 0
    THEN Ok(Complex(CPowU(a, n), representation))
    ELSE IF CIsZero(a)
    THEN Panic
    ELSE Ok(Complex(CPowU(CInv(a), -n), representation))

\* mutant: the error names the divisor as the dividend and the other way round
division_apply_Swapped(self, a_original, b_original, a, b, representation) ==
    IF CIsZero(b)
    THEN Err(DivisionByZero(self, b_original, a_original))
    ELSE Ok(Complex(IF self.k = "Quotient" THEN CDiv(a, b) ELSE CRem(a, b),
                    representation))

\* the Quotient | Remainder arm on two numbers
division_apply(self, a_original, b_original, a, b, representation) ==
    IF CIsZero(b)
    THEN Err(DivisionByZero(self, a_original, b_original))
    ELSE Ok(Complex(IF self.k = "Quotient" THEN CDiv(a, b) ELSE CRem(a, b),
                    representation))

\* the Power arm on two numbers; a_evaluated, b_evaluated: the stepped operands
power_apply(self, a_original, b_original, a_evaluated, b_evaluated, a, b, representation) ==
    IF CIsZero(a) /\ CIsZero(b)
    THEN Err(ZeroToThePowerOfZero(self, a_original, b_original))
    ELSE IF to_i32(b).some
    THEN powi(a, to_i32(b).v, representation)
    ELSE Ok(Binary("Power", a_evaluated, b_evaluated))

\* the four ordering operators on two numbers
ordering_apply(self, a_original, b_original, a, b) ==
    IF ~RIsZero(a.im)
    THEN Err(InvalidOperand(self, a_original))
    ELSE IF ~RIsZero(b.im)
    THEN Err(InvalidOperand(self, b_original))
    ELSE Ok(Boolean(CASE self.k = "LessThan" -> RLess(a.re, b.re)
                      [] self.k = "LessThanOrEqual" -> ~RLess(b.re, a.re)
                      [] self.k = "GreaterThan" -> RLess(b.re, a.re)
                      [] OTHER -> ~RLess(a.re, b.re)))

\* the Num, Num arm
number_apply(self, a_original, b_original, a_evaluated, b_evaluated, ta, tb) ==
    LET a == ta.z
        b == tb.z
        representation == merge(ta.rep, tb.rep)
    IN  CASE self.k = "Sum" -> Ok(Complex(CAdd(a, b), representation))
          [] self.k = "Difference" -> Ok(Complex(CSub(a, b), representation))
          [] self.k = "Product" -> Ok(Complex(CMul(a, b), representation))
          [] self.k \in {"Quotient", "Remainder"} ->
                division_apply(self, a_original, b_original, a, b, representation)
          [] self.k = "Power" ->
                power_apply(self, a_original, b_original, a_evaluated, b_evaluated,
                            a, b, representation)
          [] self.k = "Equal" -> Ok(Boolean(a = b))
          [] self.k = "NotEqual" -> Ok(Boolean(a # b))
          [] OTHER -> ordering_apply(self, a_original, b_original, a, b)

\* the Bool(Some), Bool(Some) arms
boolean_apply(self, a, b) ==
    CASE self.k = "Equal" -> Ok(Boolean(a = b))
      [] self.k = "NotEqual" -> Ok(Boolean(a # b))
      [] self.k = "And" -> Ok(Boolean(a /\ b))
      [] OTHER -> Ok(Boolean(a \/ b))

\* self: the binary node, a_original, b_original: its operands, a, b: the
\* stepped operands
binary_apply(self, a_original, b_original, a, b) ==
    LET ta == typ(a)
        tb == typ(b)
    IN  IF InvalidFor(self.k, ta)
        THEN Err(InvalidOperand(self, a_original))
        ELSE IF InvalidFor(self.k, tb)
        THEN Err(InvalidOperand(self, b_original))
        ELSE IF Incompatible(self.k, ta, tb)
        THEN Err(IncompatibleOperands(self, a_original, b_original))
        ELSE IF self.k \notin LogicalOps /\ ta.t = "Num" /\ tb.t = "Num"
        THEN number_apply(self, a_original, b_original, a, b, ta, tb)
        ELSE IF /\ self.k \in EqualityOps \cup LogicalOps
                /\ ta.t = "Bool" /\ ta.known /\ tb.t = "Bool" /\ tb.known
        THEN boolean_apply(self, ta.b, tb.b)
        ELSE Ok(Binary(self.k, a, b))

----------------------------------------------------------------------------
(* evaluate_step and its two recursive helpers                             *)

\* mutant: a Rational with denominator 1 is left as it is
Demote_KeepsRational(e) ==
    CASE e.k = "Complex" -> IF RIsZero(e.z.im) THEN Rational(e.z.re, e.rep) ELSE e
      [] OTHER -> e

\* The demotion arms of evaluate_step for the two numeric literals.
Demote(e) ==
    CASE e.k = "Rational" -> IF e.x.d = 1 THEN Integer(e.x.n) ELSE e
      [] e.k = "Complex" -> IF RIsZero(e.z.im) THEN Rational(e.z.re, e.rep) ELSE e
      [] OTHER -> e

RECURSIVE evaluate_step(_, _, _)
RECURSIVE evaluate_step_unary(_, _, _, _)
RECURSIVE evaluate_step_binary(_, _, _, _, _)

\* mutant: a bound Variable is replaced by its bound expression, unstepped
evaluate_step_Unstepped(self, context, visiting) ==
    CASE self.k = "Variable" ->
            IF self.id \in DOMAIN context THEN Ok(context[self.id]) ELSE Ok(self)
      [] self.k \in {"Function", "Integer", "Vector", "Matrix", "Boolean"} -> Ok(self)
      [] self.k \in {"Rational", "Complex"} -> Ok(Demote(self))
      [] self.k \in UnaryOps -> evaluate_step_unary(self, self.a, context, visiting)
      [] OTHER -> evaluate_step_binary(self, self.a, self.b, context, visiting)

\* visiting: the identifiers whose lookup is on the call stack.  A lookup of
\* an identifier that is already being resolved repeats the same call with
\* the same arguments, so the recursion never returns: StackOverflow.
evaluate_step(self, context, visiting) ==
    CASE self.k = "Variable" ->
            IF self.id \in DOMAIN context
            THEN IF self.id \in visiting
                 THEN StackOverflow
                 ELSE evaluate_step(context[self.id], context, visiting \cup {self.id})
            ELSE Ok(self)
      [] self.k \in {"Function", "Integer", "Vector", "Matrix", "Boolean"} -> Ok(self)
      [] self.k \in {"Rational", "Complex"} -> Ok(Demote(self))
      [] self.k \in UnaryOps -> evaluate_step_unary(self, self.a, context, visiting)
      [] OTHER -> evaluate_step_binary(self, self.a, self.b, context, visiting)

evaluate_step_unary(self, a, context, visiting) ==
    LET ra == evaluate_step(a, context, visiting)
    IN  IF ra.t # "Ok" THEN ra ELSE unary_apply(self, a, ra.e)

\* mutant: the right operand is stepped before the left one
evaluate_step_binary_RightFirst(self, a, b, context, visiting) ==
    LET rb == evaluate_step(b, context, visiting)
    IN  IF rb.t # "Ok"
        THEN rb
        ELSE LET ra == evaluate_step(a, context, visiting)
             IN  IF ra.t # "Ok" THEN ra ELSE binary_apply(self, a, b, ra.e, rb.e)

evaluate_step_binary(self, a, b, context, visiting) ==
    LET ra == evaluate_step(a, context, visiting)
    IN  IF ra.t # "Ok"
        THEN ra
        ELSE LET rb == evaluate_step(b, context, visiting)
             IN  IF rb.t # "Ok" THEN rb ELSE binary_apply(self, a, b, ra.e, rb.e)

\* mutant: the built-in binding is inserted last and wins
default_context_BuiltinWins(context) ==
    [id \in {"i"} \cup DOMAIN context |->
        IF id = "i" THEN Complex(CI, "Fraction") ELSE context[id]]

\* The context evaluate builds: the built-in i, then the caller's bindings.
default_context(context) ==
    [id \in {"i"} \cup DOMAIN context |->
        IF id \in DOMAIN context THEN context[id] ELSE Complex(CI, "Fraction")]

\* mutant: the loop returns after its first step
Converged_Always(new_expression, old_expression) == TRUE

\* The loop's exit test.
Converged(new_expression, old_expression) == new_expression = old_expression

RECURSIVE evaluate_loop(_, _)
\* The loop of evaluate, as a function of the loop variable.
evaluate_loop(old_expression, context) ==
    LET new == evaluate_step(old_expression, context, {})
    IN  IF new.t # "Ok"
        THEN new
        ELSE IF Converged(new.e, old_expression)
        THEN Ok(new.e)
        ELSE evaluate_loop(new.e, context)

\* Expression::evaluate as a function of its two arguments.
evaluate(self, context) == evaluate_loop(self, default_context(context))

----------------------------------------------------------------------------
(* The caller's inputs                                                     *)

F == "Fraction"
D == "Decimal"
Half == [n |-> 1, d |-> 2]

Literals ==
    {Integer(n) : n \in -MaxInt..MaxInt}
    \cup {Rational(Half, F), Rational(ROne, D)}
    \cup {Complex(CI, F), Complex(COne, D)}
    \cup {Boolean(TRUE)}

Atoms ==
    Literals
    \cup {Variable("x"), Variable("i")}
    \cup {Matrix(<<Integer(1)>>), Vector(<<Integer(1)>>),
          Function("f", <<Complex(COne, D)>>)}

\* the operands of the two-level expressions
CoreAtoms ==
    {Integer(2), Boolean(TRUE), Variable("x")}

OneLevel(S) ==
    {Unary(op, a) : op \in UnaryOps, a \in S}
    \cup {Binary(op, a, b) : op \in BinaryOps, a \in S, b \in S}

TwoLevel ==
    {Unary(op, a) : op \in UnaryOps, a \in OneLevel(CoreAtoms)}
    \cup {Binary(op, a, b) : op \in BinaryOps, a \in OneLevel(CoreAtoms), b \in CoreAtoms}
    \cup {Binary(op, a, b) : op \in BinaryOps, a \in CoreAtoms, b \in OneLevel(CoreAtoms)}

Inputs == Atoms \cup OneLevel(Atoms) \cup TwoLevel

NoBindings == [id \in {} |-> Integer(0)]

Bindings ==
    { NoBindings,
      [id \in {"x"} |-> Complex(COne, D)],
      [id \in {"x", "y"} |-> IF id = "x" THEN Variable("y") ELSE Boolean(TRUE)],
      [id \in {"x"} |-> Variable("x")],
      [id \in {"x", "i"} |-> IF id = "x" THEN Binary("Quotient", Variable("i"), Integer(0))
                             ELSE Rational(Half, D)] }

----------------------------------------------------------------------------
(* The state machine: calls of Expression::evaluate, one after another     *)

VARIABLES
    pc,               \* "idle", "step", "compare", "returned" or "aborted"
    self_expression,  \* the expression evaluate was called on
    caller_context,   \* the caller's bindings
    context,          \* default_context, as built for this call
    old_expression,   \* the loop variable
    new_expression,   \* the result of stepping old_expression
    result,           \* what the call returned, or how it was aborted
    iteration,        \* how many times this call has entered the loop body
    overridden        \* whether an earlier call bound "i"

vars == <<pc, self_expression, caller_context, context, old_expression,
          new_expression, result, iteration, overridden>>

None == [t |-> "None"]
NoExpression == [k |-> "None"]

Init ==
    /\ pc = "idle"
    /\ self_expression = NoExpression
    /\ caller_context = NoBindings
    /\ context = NoBindings
    /\ old_expression = NoExpression
    /\ new_expression = NoExpression
    /\ result = None
    /\ iteration = 0
    /\ overridden = FALSE

\* evaluate is entered: the context is built and the loop variable set
Call ==
    /\ pc = "idle"
    /\ \E e \in Inputs, c \in Bindings :
          /\ self_expression' = e
          /\ caller_context' = c
          /\ context' = default_context(c)
          /\ old_expression' = e
    /\ pc' = "step"
    /\ iteration' = 0
    /\ UNCHANGED <<new_expression, result, overridden>>

\* let new_expression = old_expression.evaluate_step(&default_context)?
Step ==
    /\ pc = "step"
    /\ iteration < MaxIterations
    /\ iteration' = iteration + 1
    /\ LET new == evaluate_step(old_expression, context, {})
       IN  CASE new.t = "Ok" ->
                   /\ new_expression' = new.e
                   /\ pc' = "compare"
                   /\ UNCHANGED result
             [] new.t = "Err" ->
                   /\ pc' = "returned"
                   /\ result' = new
                   /\ UNCHANGED new_expression
             [] OTHER ->
                   /\ pc' = "aborted"
                   /\ result' = new
                   /\ UNCHANGED new_expression
    /\ UNCHANGED <<self_expression, caller_context, context, old_expression,
                   overridden>>

\* if new_expression == old_expression { return } old_expression = new_expression
Compare ==
    /\ pc = "compare"
    /\ IF Converged(new_expression, old_expression)
       THEN /\ pc' = "returned"
            /\ result' = Ok(new_expression)
            /\ UNCHANGED old_expression
       ELSE /\ pc' = "step"
            /\ old_expression' = new_expression
            /\ UNCHANGED result
    /\ UNCHANGED <<self_expression, caller_context, context, new_expression,
                   iteration, overridden>>

\* the call is over and its locals are dropped; the caller may call again
Return ==
    /\ pc = "returned"
    /\ pc' = "idle"
    /\ self_expression' = NoExpression
    /\ caller_context' = NoBindings
    /\ context' = NoBindings
    /\ old_expression' = NoExpression
    /\ new_expression' = NoExpression
    /\ result' = None
    /\ iteration' = 0
    /\ overridden' = (overridden \/ "i" \in DOMAIN caller_context)

Next ==
    \/ Call
    \/ Step
    \/ Compare
    \/ Return

Spec == Init /\ [][Next]_vars

----------------------------------------------------------------------------
(* Vocabulary of the properties                                            *)

\* old_expression has been stepped: its outcome is in new_expression or result
Stepped == pc \in {"compare", "returned", "aborted"}

\* what the step of old_expression produced
Outcome == IF pc = "compare" THEN Ok(new_expression) ELSE result

IsUnary(e) == e.k \in UnaryOps
IsBinary(e) == e.k \in BinaryOps

\* the steps of the operands of the root node of old_expression
StepA == evaluate_step(old_expression.a, context, {})
StepB == evaluate_step(old_expression.b, context, {})

\* both operands of the binary root node stepped without error
BothStepped == IsBinary(old_expression) /\ StepA.t = "Ok" /\ StepB.t = "Ok"

IsZeroNumber(t) == t.t = "Num" /\ CIsZero(t.z)

\* no numeric node on an operator path from the root is left undemoted
RECURSIVE NoUndemoted(_)
NoUndemoted(e) ==
    CASE e.k = "Complex" -> ~RIsZero(e.z.im)
      [] e.k = "Rational" -> e.x.d # 1
      [] IsUnary(e) -> NoUndemoted(e.a)
      [] IsBinary(e) -> NoUndemoted(e.a) /\ NoUndemoted(e.b)
      [] OTHER -> TRUE

----------------------------------------------------------------------------
\* C1: the expression a successful call returns is a fixed point of the
\* step, and evaluating it again under the same bindings returns it.
C1_Idempotent ==
    (pc = "returned" /\ result.t = "Ok") =>
        /\ evaluate_step(result.e, context, {}) = Ok(result.e)
        /\ evaluate(result.e, caller_context) = Ok(result.e)

\* a call that rewrote its input and returned
C1_Witness ==
    /\ pc = "returned"
    /\ result.t = "Ok"
    /\ result.e # self_expression
    /\ self_expression.k \in BinaryOps

\* C2: in the expression a successful call returns, no Number node at the
\* root or under operator operands is a Complex with zero imaginary part or a
\* Rational with denominator 1.
C2_Demoted == (pc = "returned" /\ result.t = "Ok") => NoUndemoted(result.e)

\* a residual operator node returned for an input that held an undemoted number
C2_Witness ==
    /\ pc = "returned"
    /\ result.t = "Ok"
    /\ ~NoUndemoted(self_expression)
    /\ IsBinary(result.e)

\* C3 (as stated): whatever the dividend, a Quotient or Remainder whose
\* divisor steps to a zero Number fails with DivisionByZero naming the node
\* and its original operands.
C3_AnyDividend ==
    (/\ Stepped
     /\ BothStepped
     /\ old_expression.k \in {"Quotient", "Remainder"}
     /\ IsZeroNumber(typ(StepB.e)))
    => /\ pc = "returned"
       /\ result = Err(DivisionByZero(old_expression, old_expression.a,
                                      old_expression.b))

\* C3 (amended): when the dividend steps to a Number and the divisor steps to
\* a zero Number, the call fails with DivisionByZero naming the node and its
\* original operands, and returns no expression.
C3_DivisionByZero ==
    (/\ Stepped
     /\ BothStepped
     /\ old_expression.k \in {"Quotient", "Remainder"}
     /\ typ(StepA.e).t = "Num"
     /\ IsZeroNumber(typ(StepB.e)))
    => /\ pc = "returned"
       /\ result = Err(DivisionByZero(old_expression, old_expression.a,
                                      old_expression.b))

\* a division whose divisor became zero only by stepping, and failed
C3_Witness ==
    /\ pc = "returned"
    /\ old_expression.k \in {"Quotient", "Remainder"}
    /\ BothStepped
    /\ typ(StepA.e).t = "Num"
    /\ IsZeroNumber(typ(StepB.e))
    /\ old_expression.b.k \notin {"Integer", "Rational", "Complex"}
    /\ result.t = "Err"
    /\ result.err.kind = "DivisionByZero"

\* the operand types the three operator classes reject
Rejects(op, t) ==
    \/ op \in {"Sum", "Difference", "Product", "Quotient", "Remainder", "Power"}
       /\ t.t = "Bool"
    \/ op \in {"LessThan", "LessThanOrEqual", "GreaterThan", "GreaterThanOrEqual"}
       /\ t.t \in {"Mat", "Bool"}
    \/ op \in {"And", "Or"} /\ t.t \in {"Num", "Mat", "Arithmetic"}

\* C4: a binary step whose stepped left operand has a type the operator
\* rejects fails with InvalidOperand naming the node and the original left
\* operand (also when the right one is rejected too); when only the right
\* one is rejected, it names the original right operand.
C4_InvalidOperand ==
    (Stepped /\ BothStepped) =>
        /\ Rejects(old_expression.k, typ(StepA.e)) =>
              /\ pc = "returned"
              /\ result = Err(InvalidOperand(old_expression, old_expression.a))
        /\ (/\ ~Rejects(old_expression.k, typ(StepA.e))
            /\ Rejects(old_expression.k, typ(StepB.e))) =>
              /\ pc = "returned"
              /\ result = Err(InvalidOperand(old_expression, old_expression.b))

\* both operands rejected, and the error names the left one
C4_Witness ==
    /\ pc = "returned"
    /\ BothStepped
    /\ Rejects(old_expression.k, typ(StepA.e))
    /\ Rejects(old_expression.k, typ(StepB.e))
    /\ old_expression.a # old_expression.b
    /\ result = Err(InvalidOperand(old_expression, old_expression.a))

\* C5: a failed step ends the call with exactly that error; an error from
\* stepping the left operand is returned whatever the right operand is, and
\* an error from stepping an operand comes before the node's own checks.
C5_FirstError ==
    /\ (pc = "returned" /\ result.t = "Err") =>
          result = evaluate_step(old_expression, context, {})
    /\ (Stepped /\ IsUnary(old_expression) /\ StepA.t = "Err") =>
          (pc = "returned" /\ result = StepA)
    /\ (Stepped /\ IsBinary(old_expression) /\ StepA.t = "Err") =>
          (pc = "returned" /\ result = StepA)
    /\ (Stepped /\ IsBinary(old_expression) /\ StepA.t = "Ok" /\ StepB.t = "Err") =>
          (pc = "returned" /\ result = StepB)

\* the left operand failed and the right one, had it been stepped, would
\* never have returned
C5_Witness ==
    /\ pc = "returned"
    /\ IsBinary(old_expression)
    /\ StepA.t = "Err"
    /\ StepB.t = "StackOverflow"
    /\ result = StepA

\* C6: the context of every call is the built-in i overlaid with the
\* caller's bindings, whatever earlier calls bound; Variable("i") evaluates
\* to the imaginary unit when the caller binds no "i" and to the value of the
\* caller's bound expression when it does.
C6_Context ==
    /\ pc # "idle" =>
          /\ DOMAIN context = {"i"} \cup DOMAIN caller_context
          /\ \A id \in DOMAIN caller_context : context[id] = caller_context[id]
          /\ "i" \notin DOMAIN caller_context => context["i"] = Complex(CI, "Fraction")
    /\ (pc = "returned" /\ self_expression = Variable("i")) =>
          IF "i" \in DOMAIN caller_context
          THEN result = evaluate(caller_context["i"], caller_context)
          ELSE result = Ok(Complex(CI, "Fraction"))

\* i evaluated to the imaginary unit in a call after one that had bound i
C6_Witness ==
    /\ overridden
    /\ pc = "returned"
    /\ self_expression = Variable("i")
    /\ "i" \notin DOMAIN caller_context
    /\ result = Ok(Complex(CI, "Fraction"))

\* a stepped operand that is neither a concrete Number nor a concrete Boolean
Deferring(t) == t.t = "Arithmetic" \/ (t.t = "Bool" /\ ~t.known)

\* Equal and NotEqual on a Boolean-typed operand and a Number or Matrix
Mismatch(op, ta, tb) ==
    /\ op \in {"Equal", "NotEqual"}
    /\ \/ ta.t \in {"Num", "Mat"} /\ tb.t = "Bool"
       \/ ta.t = "Bool" /\ tb.t \in {"Num", "Mat"}

\* C7 (as stated): when a stepped operand is Arithmetic or Boolean(unknown),
\* each binary operator and LogicalNot returns, with no error, the same
\* operator rebuilt over the stepped operands.
C7_NeverAnError ==
    /\ (Stepped /\ BothStepped
        /\ (Deferring(typ(StepA.e)) \/ Deferring(typ(StepB.e)))) =>
          Outcome = Ok(Binary(old_expression.k, StepA.e, StepB.e))
    /\ (Stepped /\ old_expression.k = "Not" /\ StepA.t = "Ok"
        /\ Deferring(typ(StepA.e))) =>
          Outcome = Ok(Unary("Not", StepA.e))

\* C7 (amended): when a stepped operand is Arithmetic or Boolean(unknown) and
\* the operator rejects neither operand type nor their combination, a binary
\* operator returns, with no error, the same operator rebuilt over the
\* stepped operands; LogicalNot does so on a Boolean(unknown) operand.
C7_Deferred ==
    /\ (Stepped /\ BothStepped
        /\ (Deferring(typ(StepA.e)) \/ Deferring(typ(StepB.e)))
        /\ ~Rejects(old_expression.k, typ(StepA.e))
        /\ ~Rejects(old_expression.k, typ(StepB.e))
        /\ ~Mismatch(old_expression.k, typ(StepA.e), typ(StepB.e))) =>
          Outcome = Ok(Binary(old_expression.k, StepA.e, StepB.e))
    /\ (Stepped /\ old_expression.k = "Not" /\ StepA.t = "Ok"
        /\ typ(StepA.e).t = "Bool" /\ ~typ(StepA.e).known) =>
          Outcome = Ok(Unary("Not", StepA.e))

\* an operator rebuilt over an unbound variable and an operand that stepping
\* changed
C7_Witness ==
    /\ Stepped
    /\ BothStepped
    /\ typ(StepA.e).t = "Arithmetic"
    /\ ~Rejects(old_expression.k, typ(StepB.e))
    /\ StepB.e # old_expression.b
    /\ Outcome = Ok(Binary(old_expression.k, StepA.e, StepB.e))

\* C8: every step application returns (the recursion of evaluate_step ends).
C8_StepReturns == ~(pc = "aborted" /\ result = StackOverflow)

\* an exponent that is exactly an integer in the i32 range
IntegralExponent(z) ==
    /\ RIsZero(z.im)
    /\ z.re.d = 1
    /\ -I32Max - 1 <= z.re.n
    /\ z.re.n <= I32Max

\* C9: Power on two Numbers fails with ZeroToThePowerOfZero naming the
\* original operands when both are zero; otherwise, when the exponent is not
\* exactly an integer in the i32 range, the step returns a Power node over the
\* stepped operands.
C9_Power ==
    (Stepped /\ BothStepped /\ old_expression.k = "Power"
     /\ typ(StepA.e).t = "Num" /\ typ(StepB.e).t = "Num") =>
        IF IsZeroNumber(typ(StepA.e)) /\ IsZeroNumber(typ(StepB.e))
        THEN /\ pc = "returned"
             /\ result = Err(ZeroToThePowerOfZero(old_expression, old_expression.a,
                                                  old_expression.b))
        ELSE ~IntegralExponent(typ(StepB.e).z) =>
                Outcome = Ok(Binary("Power", StepA.e, StepB.e))

\* C10: a Quotient, Remainder or Power step on two Numbers ends in an
\* expression or in one of the four error kinds.
C10_Total ==
    (Stepped /\ BothStepped
     /\ old_expression.k \in {"Quotient", "Remainder", "Power"}
     /\ typ(StepA.e).t = "Num" /\ typ(StepB.e).t = "Num") =>
        \/ Outcome.t = "Ok"
        \/ Outcome.t = "Err" /\ Outcome.err.kind \in ErrorKinds

\* the sub-expressions of e: e and, through operator operands, theirs
RECURSIVE SubExpressions(_)
SubExpressions(e) ==
    CASE IsUnary(e) -> {e} \cup SubExpressions(e.a)
      [] IsBinary(e) -> {e} \cup SubExpressions(e.a) \cup SubExpressions(e.b)
      [] OTHER -> {e}

\* the sub-expressions of the caller's input tree and of the bound expressions
GivenExpressions ==
    SubExpressions(self_expression)
    \cup UNION {SubExpressions(context[id]) : id \in DOMAIN context}

\* the expression fields an error carries
ErrorFields(err) ==
    CASE err.kind = "InvalidOperand" -> {err.expression, err.operand}
      [] err.kind = "IncompatibleOperands" ->
            {err.expression, err.operand_1, err.operand_2}
      [] err.kind = "DivisionByZero" -> {err.expression, err.dividend, err.divisor}
      [] OTHER -> {err.expression, err.base, err.exponent}

\* C11: a call ends without an expression only in its first loop iteration:
\* once the first step has succeeded, every later step succeeds and the loop
\* ends with an expression; and the expressions an error carries are
\* sub-expressions of the caller's input tree or of a bound expression.
C11_FirstIterationOnly ==
    /\ (pc \in {"returned", "aborted"} /\ result.t # "Ok") => iteration = 1
    /\ pc = "step" => iteration < MaxIterations
    /\ (pc = "returned" /\ result.t = "Err") =>
          ErrorFields(result.err) \subseteq GivenExpressions

\* a call whose first step succeeded and that returned an expression after
\* further steps on rewritten trees that hold a division
C11_Witness ==
    /\ pc = "returned"
    /\ result.t = "Ok"
    /\ iteration >= 3
    /\ \E e \in SubExpressions(self_expression) : e.k \in {"Quotient", "Remainder", "Power"}

====
